---------------------------- MODULE Spec2Model ----------------------------
(***************************************************************************)
(* Payment-event reconciliation of instantmonie-backend: the two inbound   *)
(* credit webhooks (handlePaymentNotification, receivePayment) and the     *)
(* withdrawal request (initiatePayment), over the Business, Transaction    *)
(* and WebhookActivity collections.                                        *)
(*                                                                         *)
(* Money is kept in minor units (kobo): the code's naira values are        *)
(* multiplied by 100, so orderAmount / 100 of the code is the identity     *)
(* here and Math.round(x * 100) / 100 is a rounding to a whole kobo.       *)
(* Percentages are kept in basis points (1.5% = 150).                      *)
(*                                                                         *)
(* One action is the code between two awaits of a handler: Node runs that  *)
(* stretch without interruption, and each awaited storage call is one      *)
(* atomic operation of the store.                                          *)
(***************************************************************************)
EXTENDS Integers, Sequences, FiniteSets, TLC

(***************************************************************************)
(* Bounds of the model.                                                    *)
(***************************************************************************)
\* requests started over a whole behaviour
MaxRequests == 2
\* minutes the clock may advance
MaxTime == 5
\* requests started over a behaviour in which they come one after another
MaxSeqRequests == 3
\* times one client sends its withdrawal request over a behaviour
MaxRepeats == 6
\* login requests in a behaviour of LoginSpec, and the minutes it lasts
MaxLogins == 6
\* withdrawal requests in a behaviour of LimiterSpec, and the minutes it lasts
MaxLimited == 7
MaxLimiterTime == 6
MaxLoginTime == 45

\* the concurrently running request tasks
Procs == {"t1", "t2"}

(***************************************************************************)
(* Program constants.                                                      *)
(***************************************************************************)
PAYVESSEL_IP == "47.254.157.75"
\* DEFAULT_CHARGE_PERCENTAGE = 1 (percent), in basis points
DEFAULT_CHARGE_PERCENTAGE == 100
\* DEFAULT_CHARGE_CAP = 500 (naira), in kobo
DEFAULT_CHARGE_CAP == 50000
\* receivePayment's literal 1.5 (percent), in basis points
RECEIVE_DEFAULT_PERCENTAGE == 150
\* receivePayment's literal cap 500 (naira), in kobo
RECEIVE_DEFAULT_CAP == 50000
\* amount < 100 (naira) is refused, in kobo
MIN_WITHDRAWAL == 10000
\* retryTimeWindow = 2 * 60 * 1000 ms, in minutes
RETRY_TIME_WINDOW == 2
\* duplicate-attempt window 5 * 60 * 1000 ms, in minutes
DUPLICATE_WINDOW == 5
\* CACHE_TTL = 10 * 60 * 1000 ms, in minutes
CACHE_TTL == 10
\* RATE_LIMIT_WINDOW = 5 * 60 * 1000 ms, in minutes
RATE_LIMIT_WINDOW == 5
MAX_ATTEMPTS == 5
\* login: the account locks at 5 failed attempts, for 30 minutes
MAX_LOGIN_ATTEMPTS == 5
LOCK_TIME == 30

\* defaultTier1 .. defaultTier3 of initiatePayment, in kobo
DefaultTiers ==
  [tier1 |-> [min |-> 0, max |-> 500000, fee |-> 2000],
   tier2 |-> [min |-> 500001, max |-> 5000000, fee |-> 4000],
   tier3 |-> [min |-> 5000001, fee |-> 6500],
   useDefault |-> TRUE]

\* the schema defaults of business.charges.payment
DefaultPaymentCharges ==
  [percentage |-> 150, cap |-> 50000, useDefault |-> TRUE,
   fixedPrice |-> 0, type |-> "percentage"]

(***************************************************************************)
(* The stored world outside the three collections: one merchant, the       *)
(* virtual accounts bound to it.                                           *)
(***************************************************************************)
TheBusiness == "b1"
\* the Business documents that exist
Businesses == {TheBusiness}
\* AccountNumber documents: accountNumber -> businessId ("va2" is bound to a
\* business that no longer exists, "va9" is bound to nothing)
AccountNumbers == [va1 |-> "b1", va2 |-> "b0"]
\* business.balance when the behaviour starts, in kobo
InitBalance == 5000 * 100
\* business.webhookUrl is configured
HasWebhookUrl == TRUE

NoOrder == <<"none", 0>>
NoCharges == [percentage |-> 0, cap |-> 0, useDefault |-> FALSE,
              fixedPrice |-> 0, type |-> "absent"]

(***************************************************************************)
(* Inputs.                                                                 *)
(***************************************************************************)
\* Sign(fields): the provider's signature over the payload fields
Sign(orderNo, orderStatus, orderAmount, virtualAccountNo) ==
  <<"sig", orderNo, orderStatus, orderAmount, virtualAccountNo>>

Forged == <<"sig", NoOrder, 0, 0, "none">>

\* the payloads the provider (or anyone else) delivers
Payloads ==
  { [orderNo |-> <<"ORD", 1>>, orderStatus |-> 1, orderAmount |-> 10000,
     virtualAccountNo |-> "va1"],
    [orderNo |-> <<"ORD", 2>>, orderStatus |-> 1, orderAmount |-> 2050,
     virtualAccountNo |-> "va1"],
    [orderNo |-> <<"ORD", 3>>, orderStatus |-> 2, orderAmount |-> 10000,
     virtualAccountNo |-> "va1"],
    [orderNo |-> <<"ORD", 4>>, orderStatus |-> 1, orderAmount |-> -3000,
     virtualAccountNo |-> "va1"],
    [orderNo |-> <<"ORD", 5>>, orderStatus |-> 1, orderAmount |-> 10000,
     virtualAccountNo |-> "va9"],
    [orderNo |-> <<"ORD", 6>>, orderStatus |-> 1, orderAmount |-> 10000,
     virtualAccountNo |-> "va2"] }

\* withdrawal requests: client order ids and amounts in kobo
OrderIds == {<<"WD", 1>>, <<"WD", 2>>}

VARIABLES
  balance,          \* Business.balance of TheBusiness, in kobo
  version,          \* Business.__v of TheBusiness
  transactions,     \* the Transaction collection, in insertion order
  webhookActivity,  \* the WebhookActivity collection, in insertion order
  payouts,          \* payouts the provider accepted, in order
  merchantPosts,    \* POSTs sent to the merchant's webhook URL, in order
  paymentAttemptCache, \* orderId -> timestamp, -1 when absent
  rateLimitCache,   \* [count, resetTime] of the one (business, ip) key
  now,              \* Date.now(), in minutes
  charges,          \* Business.charges of TheBusiness
  started,          \* requests started so far
  limit,            \* requests the behaviour may start
  admitted,         \* the times at which the rate limiter let a request pass
  verification,     \* the notification given to verifySignature, its result
  account,          \* loginAttempts and lockUntil of the one User that logs in
  users,            \* the User collection behind /api/v1/users
  pc,               \* per task: where its handler stands
  req,              \* per task: the request it handles
  loc,              \* per task: the handler's local variables
  response          \* the response a handler sent in the step just taken

vars == <<balance, version, transactions, webhookActivity, payouts,
          merchantPosts, paymentAttemptCache, rateLimitCache, now, charges,
          started, limit, admitted, verification, account, users, pc, req,
          loc, response>>


(***************************************************************************)
(* Pure helpers.                                                           *)
(***************************************************************************)
\* Math.round(n / d) for d > 0: the nearest integer, halves towards +infinity
RoundDiv(n, d) == (2 * n + d) \div (2 * d)

\* Math.round(Math.min(amount * percentage / 100, cap) * 100) / 100, with the
\* percentage in basis points and amount, cap and result in kobo
PercentageCharge(amount, bp, cap) ==
  IF amount * bp <= cap * 10000 THEN RoundDiv(amount * bp, 10000) ELSE cap

\* x || d of JavaScript for numbers
OrElse(x, d) == IF x = 0 THEN d ELSE x

\* calculateCharges of the notification path
calculateCharges(amount, businessCharges) ==
  LET chargeAmount ==
        IF businessCharges.type = "absent"
          THEN PercentageCharge(amount, DEFAULT_CHARGE_PERCENTAGE, DEFAULT_CHARGE_CAP)
        ELSE IF ~businessCharges.useDefault /\ businessCharges.type = "fixed"
          THEN businessCharges.fixedPrice
        ELSE PercentageCharge(amount,
                              OrElse(businessCharges.percentage, DEFAULT_CHARGE_PERCENTAGE),
                              OrElse(businessCharges.cap, DEFAULT_CHARGE_CAP))
  IN [chargeAmount |-> chargeAmount, netAmount |-> amount - chargeAmount]

\* the charge computed inline by receivePayment
receiveCharges(amount, businessCharges) ==
  LET chargeAmount ==
        IF businessCharges.type = "absent"
          THEN PercentageCharge(amount, RECEIVE_DEFAULT_PERCENTAGE, RECEIVE_DEFAULT_CAP)
        ELSE IF ~businessCharges.useDefault /\ businessCharges.type = "fixed"
          THEN businessCharges.fixedPrice
        ELSE PercentageCharge(amount,
                              OrElse(businessCharges.percentage, RECEIVE_DEFAULT_PERCENTAGE),
                              OrElse(businessCharges.cap, RECEIVE_DEFAULT_CAP))
  IN [chargeAmount |-> chargeAmount, netAmount |-> amount - chargeAmount]

\* the tiered withdrawal fee of initiatePayment
TierFee(amount, t) ==
  IF amount >= t.tier1.min /\ amount <= t.tier1.max THEN t.tier1.fee
  ELSE IF amount >= t.tier2.min /\ amount <= t.tier2.max THEN t.tier2.fee
  ELSE IF amount >= t.tier3.min THEN t.tier3.fee
  ELSE 0

withdrawalFee(amount, withdrawal) ==
  IF ~withdrawal.useDefault THEN TierFee(amount, withdrawal)
  ELSE TierFee(amount, DefaultTiers)

\* business.charges as stored: the schema defaults, or a merchant-specific
\* fixed payment fee of 50 naira
ChargeConfigs ==
  { [payment |-> DefaultPaymentCharges, withdrawal |-> DefaultTiers],
    [payment |-> [percentage |-> 150, cap |-> 50000, useDefault |-> FALSE,
                  fixedPrice |-> 5000, type |-> "fixed"],
     withdrawal |-> DefaultTiers] }

validateIpAddress(ip) == ip = PAYVESSEL_IP

\* verifySignature: the signature is the provider's over exactly these fields
verifySignature(body) ==
  body.sign = Sign(body.orderNo, body.orderStatus, body.orderAmount,
                   body.virtualAccountNo)

(***************************************************************************)
(* verifySignature on notifications of any shape: an object is a sequence  *)
(* of <<key, value>> pairs in insertion order, a string a sequence of      *)
(* characters.                                                             *)
(***************************************************************************)
\* null, a value that is no string
Null == <<"null">>
Keys == <<"a", "b">>

\* the values of a field: null, '', "1", "2" and "1&b=2"
Values == {Null, <<>>, <<"1">>, <<"2">>, <<"1", "&", "b", "=", "2">>}

\* the objects with at most one value per key, in every insertion order
ParamsOfLen(n) ==
  {ps \in [1..n -> {<<Keys[k], v>> : k \in 1..Len(Keys), v \in Values}] :
     \A i, j \in 1..n : i # j => ps[i][1] # ps[j][1]}

Params == UNION {ParamsOfLen(n) : n \in 0..Len(Keys)}

\* filter: params[key] !== null && params[key] !== undefined &&
\* params[key] !== ''
Kept(ps) ==
  {i \in 1..Len(ps) : ps[i][2] # Null /\ ps[i][2] # <<>>}

\* .sort().map(key => `${key}=${params[key]}`).join('&'), over the keys in
\* their sorted order from the k-th on
RECURSIVE JoinFrom(_, _, _)
JoinFrom(ps, k, first) ==
  IF k > Len(Keys) THEN <<>>
  ELSE LET S == {i \in Kept(ps) : ps[i][1] = Keys[k]}
       IN IF S = {} THEN JoinFrom(ps, k + 1, first)
          ELSE LET i == CHOOSE x \in S : TRUE
               IN (IF first THEN <<>> ELSE <<"&">>)
                    \o <<Keys[k], "=">> \o ps[i][2]
                    \o JoinFrom(ps, k + 1, FALSE)

strA(ps) == JoinFrom(ps, 1, TRUE)

\* the provider's signature of a string: RSA-SHA1 over its MD5 digest
SignatureOf(str) == <<"rsa", str>>

\* the sign field: absent, not URL-decodable, or the provider's signature
\* of one of three payloads
Absent == <<"absent">>
Malformed == <<"%E0%A4%A">>
Signatures ==
  {SignatureOf(strA(<<<<"a", <<"1">>>>, <<"b", <<"2">>>>>>)),
   SignatureOf(strA(<<<<"a", <<"1">>>>>>)),
   SignatureOf(strA(<<<<"b", <<"2">>>>>>))}

Notifications ==
  [params : Params, sign : {Absent, Malformed} \cup Signatures]

\* verifySignature: false without a signature, false when decodeURIComponent
\* throws, else the verdict of verifier.verify on the digest of strA
verifySignatureOf(notification) ==
  IF notification.sign = Absent THEN FALSE
  ELSE IF notification.sign = Malformed THEN FALSE
  ELSE notification.sign = SignatureOf(strA(notification.params))

NoVerification ==
  [stage |-> "idle", notification |-> [params |-> <<>>, sign |-> Absent],
   result |-> FALSE]


(***************************************************************************)
(* The store.                                                              *)
(***************************************************************************)
TxnIds == 1..Len(transactions)

\* the unique sparse index { orderNo: 1 }: documents without orderNo are not
\* indexed
OrderNoTaken(orderNo) ==
  orderNo # NoOrder /\ \E i \in TxnIds : transactions[i].orderNo = orderNo

\* the unique sparse compound index { business, orderId, type }: a document
\* is indexed as soon as it has one of the keys, so a missing orderId is
\* indexed as null
CompoundKeyTaken(business, orderId, type) ==
  \E i \in TxnIds : /\ transactions[i].business = business
                    /\ transactions[i].orderId = orderId
                    /\ transactions[i].type = type

\* the schema validator min: [0, 'Amount cannot be negative'] of amount
AmountValid(amount) == amount >= 0

\* Transaction.create(doc) throws
CreateFails(doc) ==
  \/ ~AmountValid(doc.amount)
  \/ OrderNoTaken(doc.orderNo)
  \/ CompoundKeyTaken(doc.business, doc.orderId, doc.type)

\* the schema validator min: [0, 'Amount cannot be negative'] of balance
BalanceValid(b) == b >= 0

NoWebhookId == <<"none", 0>>

Txn(orderNo, orderId, type, amount, status, prev, new, ch, webhookId) ==
  [orderNo |-> orderNo, orderId |-> orderId, business |-> TheBusiness,
   type |-> type, amount |-> amount, status |-> status,
   previousBalance |-> prev, newBalance |-> new,
   charge |-> ch.chargeAmount, netAmount |-> ch.netAmount,
   webhookId |-> webhookId,
   failedAt |-> IF status = "failed" THEN now ELSE -1]

Activity(event, orderNo, status, error, retryCount) ==
  [event |-> event, orderNo |-> orderNo, status |-> status, error |-> error,
   retryCount |-> retryCount, signed |-> {}]

NoLoc ==
  [retryCount |-> 0, bal |-> 0, v |-> 0, v0 |-> 0, prev |-> 0, charge |-> 0,
   net |-> 0, attempts |-> 0, lockUntil |-> -1, role |-> "none",
   fee |-> 0, txn |-> 0, saved |-> FALSE, notified |-> FALSE, postOk |-> FALSE,
   paid |-> FALSE, provider |-> 0, payoutNo |-> NoOrder, t0 |-> 0,
   key |-> NoOrder, seen |-> "none", next |-> "none", err |-> "none",
   status |-> 0]

NoBody == [orderNo |-> NoOrder, orderStatus |-> 0, orderAmount |-> 0,
           virtualAccountNo |-> "none", sign |-> Forged]

\* the users of /api/v1/users: an admin and a plain user
UserIds == {"u1", "u2"}

RoleOf(u) == IF u = "u1" THEN "admin" ELSE "user"

\* a bearer token: none, one that jwt.verify rejects, or one that signToken
\* made for a user; serial 1 is the token createSendToken stored as that
\* user's activeSession, serial 2 any other token signed for the user
NoToken == [kind |-> "none", user |-> "none", serial |-> 0]
BadToken == [kind |-> "bad", user |-> "none", serial |-> 0]
SignedTokens == [kind : {"jwt"}, user : UserIds, serial : {1, 2}]
Tokens == {NoToken, BadToken} \cup SignedTokens

SessionToken(u) == [kind |-> "jwt", user |-> u, serial |-> 1]

\* a user document: disabled, changedPasswordAfter(iat) of its tokens, and
\* the token of its active session
UserConfigs ==
  [UserIds -> [exists : {TRUE}, disabled : BOOLEAN, changed : BOOLEAN,
               loggedIn : BOOLEAN, name : {"name"}]]

InitialUsers ==
  [u \in UserIds |-> [exists |-> TRUE, disabled |-> FALSE, changed |-> FALSE,
                      loggedIn |-> FALSE, name |-> "name"]]

\* the User before any login: loginAttempts 0 and no lockUntil (-1), with the
\* number of wrong-password attempts answered since the last successful
\* login and the time of the fifth of them
NoAccount == [loginAttempts |-> 0, lockUntil |-> -1, failed |-> 0,
              lockedAt |-> -1]

NoResponse == [task |-> "none", err |-> "none", status |-> 0, key |-> NoOrder]

NoReq == [kind |-> "none", ip |-> "none", body |-> NoBody,
          webhookId |-> NoWebhookId, orderId |-> NoOrder, amount |-> 0,
     txnId |-> 0, newStatus |-> "none"]

\* the stored world and the idle tasks when the behaviour starts
\* the stored world with a merchant of this balance and these charges
WorldOf(bal, configs, collections) ==
  /\ balance = bal
  /\ version = 0
  /\ transactions = <<>>
  /\ webhookActivity = <<>>
  /\ merchantPosts = <<>>
  /\ payouts = <<>>
  /\ paymentAttemptCache = [o \in OrderIds |-> -1]
  /\ rateLimitCache = [count |-> 0, resetTime |-> -1]
  /\ now = 0
  /\ charges \in configs
  /\ verification = NoVerification
  /\ account = NoAccount
  /\ admitted = <<>>
  /\ users \in collections
  /\ started = 0
  /\ pc = [p \in Procs |-> "done"]
  /\ req = [p \in Procs |-> NoReq]
  /\ loc = [p \in Procs |-> NoLoc]
  /\ response = NoResponse

World(bal, configs) == WorldOf(bal, configs, {InitialUsers})

WorldWith(configs) == World(InitBalance, configs)

InitialWorld == WorldWith(ChargeConfigs)

Init == InitialWorld /\ limit = MaxRequests

Store == <<balance, version, transactions, payouts>>
Caches == <<paymentAttemptCache, rateLimitCache>>
Env == <<now, charges, limit, admitted, verification, account, users>>

\* the handler of p moves to `to` with its locals changed to l
Goto(p, to, l) ==
  /\ pc' = [pc EXCEPT ![p] = to]
  /\ loc' = [loc EXCEPT ![p] = l]
  /\ response' = NoResponse
  /\ UNCHANGED req

\* the handler of p ends with outcome l.err, answered l.status: its request
\* and its locals are gone
Finish(p, l) ==
  /\ pc' = [pc EXCEPT ![p] = "done"]
  /\ loc' = [loc EXCEPT ![p] = NoLoc]
  /\ req' = [req EXCEPT ![p] = NoReq]
  /\ response' = [task |-> p, err |-> l.err, status |-> l.status,
                   key |-> l.key]


(***************************************************************************)
(* handlePaymentNotification (with processPayment, createTransactionRecord *)
(* and notifyBusiness).                                                    *)
(***************************************************************************)
SignedBody(w) ==
  [orderNo |-> w.orderNo, orderStatus |-> w.orderStatus,
   orderAmount |-> w.orderAmount, virtualAccountNo |-> w.virtualAccountNo,
   sign |-> Sign(w.orderNo, w.orderStatus, w.orderAmount, w.virtualAccountNo)]

Payload(n) == CHOOSE w \in Payloads : w.orderNo = <<"ORD", n>>
FirstPayload == Payload(1)

\* the notifications that arrive: from the provider's address every payload
\* but the second good one, and one from another address
NotifyRequests ==
  { [kind |-> "notify", ip |-> PAYVESSEL_IP, body |-> SignedBody(w),
     webhookId |-> NoWebhookId, orderId |-> NoOrder, amount |-> 0,
     txnId |-> 0, newStatus |-> "none"]
      : w \in Payloads \ {Payload(2)} }
  \cup
  { [kind |-> "notify", ip |-> "10.0.0.1", body |-> SignedBody(FirstPayload),
     webhookId |-> NoWebhookId, orderId |-> NoOrder, amount |-> 0,
     txnId |-> 0, newStatus |-> "none"] }

\* a request is taken by a free task; which free task is immaterial, so it
\* is the first one
CanStart(p) ==
  /\ pc[p] = "done"
  /\ started < limit
  /\ p = "t2" => pc["t1"] # "done"

\* task p takes request r, its handler at `to` with locals l
Begin(p, r, to, l) ==
  /\ pc' = [pc EXCEPT ![p] = to]
  /\ loc' = [loc EXCEPT ![p] = [l EXCEPT !.v0 = version]]
  /\ req' = [req EXCEPT ![p] = r]
  /\ response' = NoResponse

StartNotification(p) ==
  /\ CanStart(p)
  /\ started' = started + 1
  /\ \E r \in NotifyRequests : Begin(p, r, "n_findActivity", NoLoc)
  /\ UNCHANGED <<Store, Caches, webhookActivity, merchantPosts, Env>>

\* the newest payment.notification activity of this order
LastActivity(orderNo) ==
  LET S == {i \in 1..Len(webhookActivity) :
              /\ webhookActivity[i].event = "payment.notification"
              /\ webhookActivity[i].orderNo = orderNo}
  IN IF S = {} THEN 0 ELSE CHOOSE i \in S : \A j \in S : j <= i

\* WebhookActivity.findOne(...).sort({ createdAt: -1 }) and the retry count
NFindActivity(p) ==
  /\ pc[p] = "n_findActivity"
  /\ LET i == LastActivity(req[p].body.orderNo)
         retryCount == IF i = 0 THEN 0 ELSE webhookActivity[i].retryCount + 1
     IN Goto(p, "n_logPending", [loc[p] EXCEPT !.retryCount = retryCount])
  /\ UNCHANGED <<Store, Caches, webhookActivity, merchantPosts, Env, started>>

Log(p, status, error) ==
  webhookActivity' =
    Append(webhookActivity,
           Activity("payment.notification", req[p].body.orderNo, status, error,
                    loc[p].retryCount))

\* the 'pending' activity of every incoming request, then the address check
NLogPending(p) ==
  /\ pc[p] = "n_logPending"
  /\ Log(p, "pending", "none")
  /\ Goto(p, IF validateIpAddress(req[p].ip) THEN "p_findTransaction"
             ELSE "n_logInvalidIp", loc[p])
  /\ UNCHANGED <<Store, Caches, merchantPosts, Env, started>>

\* the 'failed' activity of a foreign address, answered 401
NLogInvalidIp(p) ==
  /\ pc[p] = "n_logInvalidIp"
  /\ Log(p, "failed", "Invalid IP address")
  /\ Finish(p, [loc[p] EXCEPT !.err = "Invalid IP address", !.status = 401])
  /\ UNCHANGED <<Store, Caches, merchantPosts, Env, started>>

\* processPayment throws: the handler goes to its catch block
Throw(p, error, statusCode) ==
  Goto(p, "n_logError", [loc[p] EXCEPT !.err = error, !.status = statusCode])

\* the duplicate is noticed and processed all the same
AfterDuplicateCheck_GoesOn(found) == "p_findBusiness"

\* where processPayment goes once it has looked the order up
AfterDuplicateCheck(found) ==
  IF found THEN "n_logError" ELSE "p_findBusiness"

\* processPayment: Transaction.findOne({ orderNo }), then
\* AccountNumber.findOne({ accountNumber }), a read of data no request writes
PFindTransaction(p) ==
  /\ pc[p] = "p_findTransaction"
  /\ LET found == \E i \in TxnIds : transactions[i].orderNo = req[p].body.orderNo
     IN IF found
          THEN Goto(p, AfterDuplicateCheck(found),
                    [loc[p] EXCEPT !.err = "Payment already processed",
                                   !.status = 200])
        ELSE IF req[p].body.virtualAccountNo \notin DOMAIN AccountNumbers
          THEN Throw(p, "Account not found", 400)
        ELSE Goto(p, AfterDuplicateCheck(found), loc[p])
  /\ UNCHANGED <<Store, Caches, webhookActivity, merchantPosts, Env, started>>

\* processPayment: Business.findById, the status check, calculateCharges, and
\* createTransactionRecord up to its business.save()
PFindBusiness(p) ==
  /\ pc[p] = "p_findBusiness"
  /\ LET body == req[p].body
         c == calculateCharges(body.orderAmount, charges.payment)
     IN IF AccountNumbers[body.virtualAccountNo] \notin Businesses
          THEN Throw(p, "Business not found", 400)
        ELSE IF body.orderStatus # 1
          THEN Throw(p, "Order not successful", 400)
        ELSE Goto(p, "c_save",
                  [loc[p] EXCEPT !.v = version,
                                 !.prev = balance,
                                 !.bal = balance + c.netAmount,
                                 !.charge = c.chargeAmount,
                                 !.net = c.netAmount])
  /\ UNCHANGED <<Store, Caches, webhookActivity, merchantPosts, Env, started>>

\* business.save() of a document whose balance was assigned: validation, then
\* an update of the balance field filtered by _id alone
SaveBalance(l) ==
  balance' = IF l.bal # l.prev THEN l.bal ELSE balance

\* createTransactionRecord: await business.save()
CSave(p) ==
  /\ pc[p] = "c_save"
  /\ IF BalanceValid(loc[p].bal)
       THEN /\ SaveBalance(loc[p])
            /\ Goto(p, "c_create", [loc[p] EXCEPT !.saved = TRUE])
       ELSE /\ Throw(p, "Validation failed", 500)
            /\ UNCHANGED balance
  /\ UNCHANGED <<version, transactions, payouts, Caches, webhookActivity,
                 merchantPosts, Env, started>>

\* createTransactionRecord: Transaction.create
CCreate(p) ==
  /\ pc[p] = "c_create"
  /\ LET body == req[p].body
         doc == Txn(body.orderNo, body.orderNo, "payment", body.orderAmount,
                    IF body.orderStatus = 1 THEN "completed" ELSE "failed",
                    loc[p].prev, loc[p].bal,
                    [chargeAmount |-> loc[p].charge, netAmount |-> loc[p].net],
                    NoWebhookId)
     IN IF CreateFails(doc)
          THEN /\ Throw(p, "Transaction.create failed", 500)
               /\ UNCHANGED transactions
          ELSE /\ transactions' = Append(transactions, doc)
               /\ Goto(p, IF HasWebhookUrl THEN "nb_post" ELSE "n_logSuccess",
                       [loc[p] EXCEPT !.txn = Len(transactions) + 1])
  /\ UNCHANGED <<balance, version, payouts, Caches, webhookActivity,
                 merchantPosts, Env, started>>

\* what becomes of the POST: the merchant answers 2xx, or the POST fails
\* (network error, non-2xx, timeout), or the try block throws before it
NotifyOutcomes == {"delivered", "refused", "unsent"}

\* every delivery recorded as a success
DeliveryStatus_AlwaysSuccess(outcome) == "success"

\* the record of the try block after the POST, or that of the catch block
DeliveryStatus(outcome) ==
  IF outcome = "delivered" THEN "success" ELSE "failed"

\* the error of the POST thrown on to the caller
AfterNotify_Rethrows(outcome) ==
  IF outcome = "delivered" THEN "n_logSuccess" ELSE "n_logError"

\* notifyBusiness catches whatever its try block throws and returns
AfterNotify(outcome) == "n_logSuccess"

\* the parts of the stored delivery record that hold the HMAC signature of
\* the delivery: both records store 'x-signature' as '***REDACTED***'; the
\* record of the try block stores the requestBody that was posted, whose
\* signature field is the signature; the catch block builds a body without it
SignedParts(outcome) == IF outcome = "delivered" THEN {"body"} ELSE {}

\* notifyBusiness: the one axios.post to the merchant, which succeeds or
\* throws, and the delivery record of the try or of the catch block
NotifyBusiness(p) ==
  /\ pc[p] = "nb_post"
  /\ \E outcome \in NotifyOutcomes :
       /\ merchantPosts' =
            IF outcome = "unsent" THEN merchantPosts
            ELSE Append(merchantPosts,
                        [orderNo |-> req[p].body.orderNo,
                         ok |-> outcome = "delivered"])
       /\ webhookActivity' =
            Append(webhookActivity,
                   [Activity("payment.received", req[p].body.orderNo,
                             DeliveryStatus(outcome),
                             IF outcome = "delivered" THEN "none"
                             ELSE "post failed",
                             0) EXCEPT !.signed = SignedParts(outcome)])
       /\ Goto(p, AfterNotify(outcome),
               [loc[p] EXCEPT !.notified = TRUE,
                              !.postOk = (outcome = "delivered")])
  /\ UNCHANGED <<Store, Caches, Env, started>>

\* the 'success' activity, answered 200
NLogSuccess(p) ==
  /\ pc[p] = "n_logSuccess"
  /\ Log(p, "success", "none")
  /\ Finish(p, [loc[p] EXCEPT !.status = 200])
  /\ UNCHANGED <<Store, Caches, merchantPosts, Env, started>>

\* the catch block: the 'failed' activity, answered with the error's status
NLogError(p) ==
  /\ pc[p] = "n_logError"
  /\ Log(p, "failed", loc[p].err)
  /\ Finish(p, loc[p])
  /\ UNCHANGED <<Store, Caches, merchantPosts, Env, started>>


(***************************************************************************)
(* receivePayment.                                                         *)
(***************************************************************************)
HeaderWebhookId == <<"x-webhook-id", 1>>
\* `webhook-${Date.now()}-${random}`: unlike every other id
RandomWebhookId == <<"webhook", started + 1>>

\* the deliveries to receivePayment: the payloads signed by the provider
\* with the x-webhook-id header, one without the header, one forged
ReceiveRequests ==
  { [kind |-> "receive", ip |-> "none", body |-> SignedBody(w),
     webhookId |-> HeaderWebhookId, orderId |-> NoOrder, amount |-> 0,
     txnId |-> 0, newStatus |-> "none"]
      : w \in Payloads \ {Payload(6)} }
  \cup
  { [kind |-> "receive", ip |-> "none", body |-> SignedBody(FirstPayload),
     webhookId |-> RandomWebhookId, orderId |-> NoOrder, amount |-> 0,
     txnId |-> 0, newStatus |-> "none"],
    [kind |-> "receive", ip |-> "none",
     body |-> [SignedBody(FirstPayload) EXCEPT !.sign = Forged],
     webhookId |-> HeaderWebhookId, orderId |-> NoOrder, amount |-> 0,
     txnId |-> 0, newStatus |-> "none"] }

\* the asynchronous block returns (or its catch block ends): the provider was
\* answered 200 before it began
Return(p, error) == Finish(p, [loc[p] EXCEPT !.err = error, !.status = 200])

\* the signature check, the acknowledgement, and the synchronous head of the
\* asynchronous block: required fields and the amount
StartReceive(p) ==
  /\ \E r \in ReceiveRequests :
       /\ CanStart(p)
       /\ started' = started + 1
       /\ LET l == [NoLoc EXCEPT !.status = 200]
          IN IF ~verifySignature(r.body)
               THEN Finish(p, [l EXCEPT !.err = "Invalid signature"])
             ELSE IF r.body.orderNo = NoOrder \/ r.body.orderAmount = 0
                     \/ r.body.virtualAccountNo = "none"
               THEN Finish(p, [l EXCEPT !.err = "Missing required fields"])
             ELSE IF r.body.orderAmount <= 0
               THEN Finish(p, [l EXCEPT !.err = "Invalid order amount"])
             ELSE Begin(p, r, "r_findWebhook", l)
  /\ UNCHANGED <<Store, Caches, webhookActivity, merchantPosts, Env>>

\* Transaction.findOne({ orderNo, 'metadata.webhookId': webhookId }); the
\* Transaction.findOne({ orderNo }) that follows only logs a hit and goes on;
\* then AccountNumber.findOne and Business.findById, reads of data no request
\* writes
RFindWebhook(p) ==
  /\ pc[p] = "r_findWebhook"
  /\ IF \E i \in TxnIds : /\ transactions[i].orderNo = req[p].body.orderNo
                          /\ transactions[i].webhookId = req[p].webhookId
       THEN Return(p, "Payment already processed")
     ELSE IF req[p].body.virtualAccountNo \notin DOMAIN AccountNumbers
       THEN Return(p, "Account not found")
     ELSE IF AccountNumbers[req[p].body.virtualAccountNo] \notin Businesses
       THEN Return(p, "Business not found")
     ELSE Goto(p, "r_lock", loc[p])
  /\ UNCHANGED <<Store, Caches, webhookActivity, merchantPosts, Env, started>>

\* the document Business.findOneAndUpdate({ _id }, { $inc: { __v: 1 } },
\* { new: true }) returns: the stored one, its version already raised
LockedCopy(l) == [l EXCEPT !.v = version + 1, !.bal = balance, !.prev = balance]

\* the version bump, the charge, and business.balance += net on the copy
RLock(p) ==
  /\ pc[p] = "r_lock"
  /\ LET c == receiveCharges(req[p].body.orderAmount, charges.payment)
         l == [LockedCopy(loc[p]) EXCEPT !.bal = balance + c.netAmount,
                                         !.charge = c.chargeAmount,
                                         !.net = c.netAmount]
     IN /\ version' = version + 1
        /\ Goto(p, "r_create", l)
  /\ UNCHANGED <<balance, transactions, payouts, Caches, webhookActivity,
                 merchantPosts, Env, started>>

\* Transaction.create of the completed payment; a throw lands in the catch
\* block with transaction still null
RCreate(p) ==
  /\ pc[p] = "r_create"
  /\ LET body == req[p].body
         doc == Txn(body.orderNo, NoOrder, "payment", body.orderAmount,
                    "completed", loc[p].prev, loc[p].bal,
                    [chargeAmount |-> loc[p].charge, netAmount |-> loc[p].net],
                    req[p].webhookId)
     IN IF CreateFails(doc)
          THEN /\ Return(p, "Transaction.create failed")
               /\ UNCHANGED transactions
          ELSE /\ transactions' = Append(transactions, doc)
               /\ Goto(p, "r_save", [loc[p] EXCEPT !.txn = Len(transactions) + 1])
  /\ UNCHANGED <<balance, version, payouts, Caches, webhookActivity,
                 merchantPosts, Env, started>>

\* await business.save() after the transaction was created
RSave(p) ==
  /\ pc[p] = "r_save"
  /\ IF BalanceValid(loc[p].bal)
       THEN /\ SaveBalance(loc[p])
            /\ Finish(p, [loc[p] EXCEPT !.saved = TRUE])
       ELSE /\ Goto(p, "r_markFailed", [loc[p] EXCEPT !.err = "Validation failed"])
            /\ UNCHANGED balance
  /\ UNCHANGED <<version, transactions, payouts, Caches, webhookActivity,
                 merchantPosts, Env, started>>

\* the catch block: Transaction.findByIdAndUpdate(transaction._id, failed)
RMarkFailed(p) ==
  /\ pc[p] = "r_markFailed"
  /\ transactions' = [transactions EXCEPT ![loc[p].txn].status = "failed",
                                          ![loc[p].txn].failedAt = now]
  /\ Finish(p, loc[p])
  /\ UNCHANGED <<balance, version, payouts, Caches, webhookActivity,
                 merchantPosts, Env, started>>


(***************************************************************************)
(* initiatePayment (the dashboard handler and the API handler run the same *)
(* steps).                                                                 *)
(***************************************************************************)
Withdrawal(o, a) ==
  [kind |-> "withdraw", ip |-> "none", body |-> NoBody,
   webhookId |-> NoWebhookId, orderId |-> o, amount |-> a,
   txnId |-> 0, newStatus |-> "none"]

\* the whole balance under either order id, and an amount under the minimum
WithdrawalRequests ==
  {Withdrawal(o, InitBalance) : o \in OrderIds}
    \cup {Withdrawal(<<"WD", 1>>, 5000)}

\* next(new AppError(message, status)) or res.status(status).json(...)
Respond(p, l, error, statusCode) ==
  Finish(p, [l EXCEPT !.err = error, !.status = statusCode])

\* the rate limiter's entry after this request, when it is let through
RateLimitAfter ==
  LET rateData == IF rateLimitCache.resetTime < 0
                    THEN [count |-> 0, resetTime |-> now + RATE_LIMIT_WINDOW]
                    ELSE rateLimitCache
  IN IF now > rateData.resetTime
       THEN [count |-> 1, resetTime |-> now + RATE_LIMIT_WINDOW]
       ELSE [count |-> rateData.count + 1, resetTime |-> rateData.resetTime]

\* the limiter switched off
RateLimited_Never == FALSE

\* the window is open and MAX_ATTEMPTS requests were counted in it
RateLimited ==
  /\ rateLimitCache.resetTime >= 0
  /\ now <= rateLimitCache.resetTime
  /\ rateLimitCache.count >= MAX_ATTEMPTS

\* a cached attempt of this order id younger than five minutes
DuplicateAttempt(orderId) ==
  /\ paymentAttemptCache[orderId] >= 0
  /\ now - paymentAttemptCache[orderId] < DUPLICATE_WINDOW

\* the synchronous head: the rate limiter and the attempt cache
StartWithdrawalOf(p, requests) ==
  /\ \E r \in requests :
       /\ CanStart(p)
       /\ started' = started + 1
       /\ LET l == [NoLoc EXCEPT !.t0 = now, !.key = r.orderId]
          IN IF RateLimited
               THEN /\ Respond(p, l, "Too many withdrawal attempts", 429)
                    /\ UNCHANGED <<rateLimitCache, admitted>>
             ELSE /\ rateLimitCache' = RateLimitAfter
                  /\ admitted' = Append(admitted, now)
                  /\ IF DuplicateAttempt(r.orderId)
                       THEN Respond(p, l, "Duplicate transaction detected", 400)
                       ELSE Begin(p, r, "w_findTransaction", l)
  /\ UNCHANGED <<Store, paymentAttemptCache, webhookActivity, merchantPosts,
                 now, charges, limit, verification, account, users>>

\* the completed record treated as any other unfinished one
AlreadyProcessed_Never(existing) == FALSE

\* existingTransaction.status === 'completed'
AlreadyProcessed(existing) == existing.status = "completed"

StartWithdrawal(p) == StartWithdrawalOf(p, WithdrawalRequests)

\* Transaction.findOne({ orderId, business, type: 'withdrawal' })
WFindTransaction(p) ==
  /\ pc[p] = "w_findTransaction"
  /\ LET S == {i \in TxnIds : /\ transactions[i].orderId = req[p].orderId
                              /\ transactions[i].business = TheBusiness
                              /\ transactions[i].type = "withdrawal"}
     IN IF S = {} THEN Goto(p, "w_lock", loc[p])
        ELSE LET existing == transactions[CHOOSE i \in S : \A j \in S : i <= j]
             IN IF AlreadyProcessed(existing)
                  THEN Respond(p, loc[p], "Transaction already processed successfully", 200)
                ELSE IF existing.status = "failed"
                  THEN IF loc[p].t0 - existing.failedAt < RETRY_TIME_WINDOW
                         THEN Respond(p, loc[p], "Please wait before retrying", 400)
                         ELSE Goto(p, "w_lock", loc[p])
                ELSE Respond(p, loc[p], "Currently being processed", 400)
  /\ UNCHANGED <<Store, Caches, webhookActivity, merchantPosts, Env, started>>

\* the sufficiency check left out
InsufficientBalance_Never(bal, amount) == FALSE

\* business.balance < amount
InsufficientBalance(bal, amount) == bal < amount

\* paymentAttemptCache after set(uniqueRequestId) and the sweep of entries
\* older than CACHE_TTL
CacheAfterSet(orderId, t0) ==
  [o \in OrderIds |->
     IF o = orderId THEN t0
     ELSE IF paymentAttemptCache[o] >= 0 /\ t0 - paymentAttemptCache[o] > CACHE_TTL
       THEN -1
     ELSE paymentAttemptCache[o]]

\* the version bump, the amount and balance checks, the attempt cache
WLock(p) ==
  /\ pc[p] = "w_lock"
  /\ version' = version + 1
  /\ LET l == [LockedCopy(loc[p]) EXCEPT
                 !.fee = withdrawalFee(req[p].amount, charges.withdrawal)]
     IN IF req[p].amount < MIN_WITHDRAWAL
          THEN /\ Respond(p, l, "Minimum amount to withdraw is N100", 400)
               /\ UNCHANGED paymentAttemptCache
        ELSE IF InsufficientBalance(l.bal, req[p].amount)
          THEN /\ Respond(p, l, "Insufficient balance", 400)
               /\ UNCHANGED paymentAttemptCache
        ELSE /\ paymentAttemptCache' = CacheAfterSet(req[p].orderId, l.t0)
             /\ Goto(p, "w_payout", l)
  /\ UNCHANGED <<balance, transactions, payouts, rateLimitCache,
                 webhookActivity, merchantPosts, Env, started>>

\* the provider's answers to the payout request: accepted with orderStatus 2
\* (paid) or 1 (processing), refused with another respCode, or an HTTP error
\* or timeout
ProviderAnswers == {2, 1, -1, -2}

\* Math.floor(amountAfterFee * 100) with amountAfterFee = amount - fee, in
\* IEEE-754 double arithmetic on naira: the product is the exact number of
\* kobo for the amounts requested here except for 100.10 - 20, which is
\* 80.1 and gives 8009.999999999999, so that the floor drops a kobo
amountInCents(amount, fee) ==
  IF amount = 10010 /\ fee = 2000 THEN amount - fee - 1 ELSE amount - fee

\* the fee debited on top of the amount
Debit_WithFee(bal, amount, fee) == bal - amount - fee

\* business.balance -= amount: the gross amount, the fee is inside it
Debit(bal, amount, fee) == bal - amount

\* axios.post(.../merchant/payment/payout) with amount - fee, and on success
\* the debit of the copy
WPayout(p) ==
  /\ pc[p] = "w_payout"
  /\ \E a \in ProviderAnswers :
       IF a > 0
         THEN /\ payouts' = Append(payouts,
                                   [orderId |-> req[p].orderId,
                                    gross |-> req[p].amount,
                                    amount |-> amountInCents(req[p].amount,
                                                            loc[p].fee)])
              /\ Goto(p, "w_save",
                      [loc[p] EXCEPT !.provider = a, !.paid = TRUE,
                                     !.payoutNo = <<"PAYOUT", Len(payouts) + 1>>,
                                     !.bal = Debit(loc[p].bal, req[p].amount,
                                                   loc[p].fee)])
       ELSE IF a = -1
         THEN /\ Respond(p, [loc[p] EXCEPT !.provider = a],
                         "Payment initiation failed", 400)
              /\ UNCHANGED payouts
       ELSE /\ Goto(p, "w_createFailed",
                    [loc[p] EXCEPT !.provider = a, !.err = "Provider error",
                                   !.status = 500])
            /\ UNCHANGED payouts
  /\ UNCHANGED <<balance, version, transactions, Caches, webhookActivity,
                 merchantPosts, Env, started>>

\* business.balance -= amount; await business.save()
WSave(p) ==
  /\ pc[p] = "w_save"
  /\ IF BalanceValid(loc[p].bal)
       THEN /\ SaveBalance(loc[p])
            /\ Goto(p, "w_create", [loc[p] EXCEPT !.saved = TRUE])
       ELSE /\ Goto(p, "w_createFailed",
                    [loc[p] EXCEPT !.err = "Validation failed", !.status = 500])
            /\ UNCHANGED balance
  /\ UNCHANGED <<version, transactions, payouts, Caches, webhookActivity,
                 merchantPosts, Env, started>>

\* Transaction.create of the withdrawal, then the attempt cache entry goes
WCreate(p) ==
  /\ pc[p] = "w_create"
  /\ LET doc == Txn(loc[p].payoutNo, req[p].orderId, "withdrawal",
                    req[p].amount,
                    IF loc[p].provider = 2 THEN "completed" ELSE "pending",
                    loc[p].prev, loc[p].bal,
                    [chargeAmount |-> loc[p].fee,
                     netAmount |-> req[p].amount - loc[p].fee],
                    NoWebhookId)
     IN IF CreateFails(doc)
          THEN /\ Goto(p, "w_createFailed",
                       [loc[p] EXCEPT !.err = "Transaction.create failed",
                                      !.status = 500])
               /\ UNCHANGED <<transactions, paymentAttemptCache>>
          ELSE /\ transactions' = Append(transactions, doc)
               /\ paymentAttemptCache' =
                    [paymentAttemptCache EXCEPT ![req[p].orderId] = -1]
               /\ Respond(p, [loc[p] EXCEPT !.txn = Len(transactions) + 1],
                          "none", 200)
  /\ UNCHANGED <<balance, version, payouts, rateLimitCache, webhookActivity, merchantPosts,
                 Env, started>>

\* the inner catch block: the 'failed' audit record; when that create throws
\* too, the outer catch block answers 409
WCreateFailed(p) ==
  /\ pc[p] = "w_createFailed"
  /\ LET doc == Txn(NoOrder, req[p].orderId, "withdrawal", req[p].amount,
                    "failed", loc[p].bal, loc[p].bal,
                    [chargeAmount |-> loc[p].fee,
                     netAmount |-> req[p].amount - loc[p].fee],
                    NoWebhookId)
     IN IF CreateFails(doc)
          THEN /\ Respond(p, loc[p], "Concurrent operations", 409)
               /\ UNCHANGED transactions
          ELSE /\ transactions' = Append(transactions, doc)
               /\ Finish(p, [loc[p] EXCEPT !.txn = Len(transactions) + 1])
  /\ UNCHANGED <<balance, version, payouts, Caches, webhookActivity,
                 merchantPosts, Env, started>>

(***************************************************************************)
(* The operations that rewrite a transaction's status: checkWithdrawalStatus*)
(* and the admin's updateTransactionStatus.                                *)
(***************************************************************************)
Statuses == {"pending", "completed", "failed", "cancelled", "refunded"}

\* isValidStatusTransition: validTransitions[currentStatus].includes(newStatus)
isValidStatusTransition(currentStatus, newStatus) ==
  \/ currentStatus = "pending" /\ newStatus \in {"completed", "failed", "cancelled"}
  \/ currentStatus = "completed" /\ newStatus = "refunded"
  \/ currentStatus = "failed" /\ newStatus = "pending"
  \/ currentStatus = "cancelled" /\ newStatus = "pending"

\* transaction.save() with the status path modified: the status is written,
\* and the pre-save hook stamps failedAt when it is 'failed'
SaveStatus(i, newStatus) ==
  transactions' =
    [transactions EXCEPT
       ![i].status = newStatus,
       ![i].failedAt = IF newStatus = "failed" THEN now ELSE @]

\* status queries: by the client's order id, or by the id of the first record
StatusRequests ==
  {[NoReq EXCEPT !.kind = "status", !.orderId = o] : o \in OrderIds}
    \cup {[NoReq EXCEPT !.kind = "status", !.txnId = 1]}

StartStatus(p) ==
  /\ CanStart(p)
  /\ started' = started + 1
  /\ \E r \in StatusRequests :
       Begin(p, r, "q_find", [NoLoc EXCEPT !.key = r.orderId])
  /\ UNCHANGED <<Store, Caches, webhookActivity, merchantPosts, Env>>

\* Transaction.findOne by _id or by orderId, of this business and of type
\* 'withdrawal'
QFind(p) ==
  /\ pc[p] = "q_find"
  /\ LET S == {i \in TxnIds :
                 /\ IF req[p].txnId # 0 THEN i = req[p].txnId
                    ELSE transactions[i].orderId = req[p].orderId
                 /\ transactions[i].business = TheBusiness
                 /\ transactions[i].type = "withdrawal"}
     IN IF S = {} THEN Respond(p, loc[p], "Transaction not found", 404)
        ELSE LET i == CHOOSE j \in S : \A k \in S : j <= k
             IN IF transactions[i].status = "pending"
                   /\ transactions[i].orderNo # NoOrder
                  THEN Goto(p, "q_query",
                            [loc[p] EXCEPT !.txn = i,
                                           !.seen = transactions[i].status])
                  ELSE Respond(p, loc[p], "none", 200)
  /\ UNCHANGED <<Store, Caches, webhookActivity, merchantPosts, Env, started>>

\* the provider's answers to queryPayStatus: orderStatus 2 (success), 3
\* (failed), 4 (cancelled), 1 (processing), a refusing respCode, or an HTTP
\* error with the provider's message in its body
QueryAnswers == {2, 3, 4, 1, -1, -2}

\* the mapping of the provider's order status to a transaction status
StatusOfPayout(payoutStatus) ==
  IF payoutStatus = 2 THEN "completed"
  ELSE IF payoutStatus = 3 THEN "failed"
  ELSE IF payoutStatus = 4 THEN "cancelled"
  ELSE "pending"

\* axios.post(.../merchant/payment/queryPayStatus)
QQuery(p) ==
  /\ pc[p] = "q_query"
  /\ \E a \in QueryAnswers :
       IF a < 0 THEN Respond(p, loc[p], "Provider error", 400)
       ELSE IF StatusOfPayout(a) # loc[p].seen
         THEN Goto(p, "q_save", [loc[p] EXCEPT !.next = StatusOfPayout(a)])
       ELSE Respond(p, loc[p], "none", 200)
  /\ UNCHANGED <<Store, Caches, webhookActivity, merchantPosts, Env, started>>

\* transaction.status = newStatus; await transaction.save()
QSave(p) ==
  /\ pc[p] = "q_save"
  /\ SaveStatus(loc[p].txn, loc[p].next)
  /\ Respond(p, loc[p], "none", 200)
  /\ UNCHANGED <<balance, version, payouts, Caches, webhookActivity,
                 merchantPosts, Env, started>>

\* the admin's updates: of the first or second record (which may not exist)
\* to any status
AdminRequests ==
  {[NoReq EXCEPT !.kind = "admin", !.txnId = i, !.newStatus = st] :
     i \in 1..2, st \in Statuses}

StartAdmin(p) ==
  /\ CanStart(p)
  /\ started' = started + 1
  /\ \E r \in AdminRequests : Begin(p, r, "a_find", NoLoc)
  /\ UNCHANGED <<Store, Caches, webhookActivity, merchantPosts, Env>>

\* Transaction.findById and the transition check
AFind(p) ==
  /\ pc[p] = "a_find"
  /\ IF req[p].txnId \notin TxnIds
       THEN Respond(p, loc[p], "No transaction found with that ID", 404)
     ELSE IF ~isValidStatusTransition(transactions[req[p].txnId].status,
                                      req[p].newStatus)
       THEN Respond(p, loc[p], "Invalid status transition", 400)
     ELSE Goto(p, "a_save",
               [loc[p] EXCEPT !.txn = req[p].txnId,
                              !.seen = transactions[req[p].txnId].status,
                              !.next = req[p].newStatus])
  /\ UNCHANGED <<Store, Caches, webhookActivity, merchantPosts, Env, started>>

\* transaction.status = status; await transaction.save()
ASave(p) ==
  /\ pc[p] = "a_save"
  /\ SaveStatus(loc[p].txn, loc[p].next)
  /\ Respond(p, loc[p], "none", 200)
  /\ UNCHANGED <<balance, version, payouts, Caches, webhookActivity,
                 merchantPosts, Env, started>>

(***************************************************************************)
(* login: the lock of an account after failed attempts.                    *)
(***************************************************************************)
\* the password of the request is the account's or is not
LoginRequests ==
  {[NoReq EXCEPT !.kind = "login", !.body = [password |-> pw]] :
     pw \in {"right", "wrong"}}

StartLogin(p) ==
  /\ CanStart(p)
  /\ started' = started + 1
  /\ \E r \in LoginRequests : Begin(p, r, "l_find", NoLoc)
  /\ UNCHANGED <<Store, Caches, webhookActivity, merchantPosts, Env>>

\* user.loginAttempts >= 5 && user.lockUntil && user.lockUntil > Date.now()
Locked(user) ==
  /\ user.loginAttempts >= MAX_LOGIN_ATTEMPTS
  /\ user.lockUntil # -1
  /\ user.lockUntil > now

\* User.findOne and the lock check: a locked account is answered 401
LFind(p) ==
  /\ pc[p] = "l_find"
  /\ IF Locked(account)
       THEN Respond(p, loc[p], "Account is temporarily locked", 401)
       ELSE Goto(p, "l_verify",
                 [loc[p] EXCEPT !.attempts = account.loginAttempts,
                                !.lockUntil = account.lockUntil])
  /\ UNCHANGED <<Store, Caches, webhookActivity, merchantPosts, Env, started>>

\* after user.correctPassword: a wrong password counts one more attempt on
\* the document that was read, locks it from the fifth on, and is answered
\* 401; a right one sets loginAttempts to 0 and unsets lockUntil. user.save
\* writes the paths whose value differs from the one that was read
LVerify(p) ==
  /\ pc[p] = "l_verify"
  /\ IF req[p].body.password = "wrong"
       THEN LET attempts == loc[p].attempts + 1
            IN /\ account' =
                    [account EXCEPT
                       !.loginAttempts = attempts,
                       !.lockUntil = IF attempts >= MAX_LOGIN_ATTEMPTS
                                       THEN now + LOCK_TIME ELSE @,
                       !.failed = @ + 1,
                       !.lockedAt = IF account.failed + 1 = MAX_LOGIN_ATTEMPTS
                                      THEN now ELSE @]
               /\ Respond(p, loc[p], "Invalid credentials", 401)
       ELSE /\ account' =
                 [account EXCEPT
                    !.loginAttempts = IF loc[p].attempts # 0 THEN 0 ELSE @,
                    !.lockUntil = IF loc[p].lockUntil # -1 THEN -1 ELSE @,
                    !.failed = 0,
                    !.lockedAt = -1]
            /\ Finish(p, [loc[p] EXCEPT !.status = 200])
  /\ UNCHANGED <<Store, Caches, webhookActivity, merchantPosts, now, charges,
                 limit, admitted, verification, users, started>>

\* a quarter of an hour passes with no login in flight
LoginTick ==
  /\ now + LOCK_TIME \div 2 <= MaxLoginTime
  /\ \A p \in Procs : pc[p] = "done"
  /\ now' = now + LOCK_TIME \div 2
  /\ response' = NoResponse
  /\ UNCHANGED <<Store, Caches, webhookActivity, merchantPosts, charges,
                 started, limit, admitted, verification, account, users, pc, req, loc>>

LoginStep(p) == StartLogin(p) \/ LFind(p) \/ LVerify(p)

LoginInit == InitialWorld /\ limit = MaxLogins

LoginNext == (\E p \in Procs : LoginStep(p)) \/ LoginTick

LoginSpec == LoginInit /\ [][LoginNext]_vars

(***************************************************************************)
(* The admin-only routes of /api/v1/users behind protect and restrictTo.   *)
(***************************************************************************)
Routes == {"getAllUsers", "getUser", "updateUser", "deleteUser"}

UserRequests ==
  {[NoReq EXCEPT !.kind = route, !.body = [token |-> t, id |-> u]] :
     route \in Routes, t \in Tokens, u \in UserIds}

StartUserRoute(p) ==
  /\ CanStart(p)
  /\ started' = started + 1
  /\ \E r \in UserRequests : Begin(p, r, "u_protect", NoLoc)
  /\ UNCHANGED <<Store, Caches, webhookActivity, merchantPosts, Env>>

\* AuthService.verifyToken: jwt.verify, then the user of the token must exist
\* and the token must be the one of its active session; otherwise it throws
\* a plain Error
verifyToken(token) ==
  /\ token.kind = "jwt"
  /\ users[token.user].exists
  /\ users[token.user].loggedIn
  /\ token = SessionToken(token.user)

\* protect: no token is answered 401; an Error of verifyToken is not an
\* AppError and the errorHandler answers it 500; a missing or disabled user
\* and a password changed after the token are answered 401
protect(p) ==
  /\ pc[p] = "u_protect"
  /\ LET token == req[p].body.token
     IN IF token = NoToken
          THEN Respond(p, loc[p], "You are not logged in", 401)
        ELSE IF ~verifyToken(token)
          THEN Respond(p, loc[p], "Invalid token", 500)
        ELSE IF ~users[token.user].exists
          THEN Respond(p, loc[p], "The user no longer exists", 401)
        ELSE IF users[token.user].disabled
          THEN Respond(p, loc[p], "Account is disabled", 401)
        ELSE IF users[token.user].changed
          THEN Respond(p, loc[p], "User recently changed password", 401)
        ELSE Goto(p, "u_restrict", [loc[p] EXCEPT !.role = RoleOf(token.user)])
  /\ UNCHANGED <<Store, Caches, webhookActivity, merchantPosts, Env, started>>

\* restrictTo('admin')
restrictTo(p) ==
  /\ pc[p] = "u_restrict"
  /\ IF loc[p].role \notin {"admin"}
       THEN Respond(p, loc[p], "You do not have permission", 403)
       ELSE Goto(p, "u_handle", loc[p])
  /\ UNCHANGED <<Store, Caches, webhookActivity, merchantPosts, Env, started>>

\* the handlers, as the tests of the user controller describe them: the
\* list and a user are read, updateUser changes the user, deleteUser answers
\* 204 and the user is gone
UserHandler(p) ==
  /\ pc[p] = "u_handle"
  /\ LET id == req[p].body.id
     IN IF req[p].kind = "getAllUsers"
          THEN /\ Finish(p, [loc[p] EXCEPT !.status = 200])
               /\ UNCHANGED users
        ELSE IF ~users[id].exists
          THEN /\ Respond(p, loc[p], "No document found with that ID", 404)
               /\ UNCHANGED users
        ELSE IF req[p].kind = "getUser"
          THEN /\ Finish(p, [loc[p] EXCEPT !.status = 200])
               /\ UNCHANGED users
        ELSE IF req[p].kind = "updateUser"
          THEN /\ users' = [users EXCEPT ![id].name = "updated"]
               /\ Finish(p, [loc[p] EXCEPT !.status = 200])
        ELSE /\ users' = [users EXCEPT ![id].exists = FALSE]
             /\ Finish(p, [loc[p] EXCEPT !.status = 204])
  /\ UNCHANGED <<Store, Caches, webhookActivity, merchantPosts, now, charges,
                 limit, admitted, verification, account, started>>

UserStep(p) == StartUserRoute(p) \/ protect(p) \/ restrictTo(p) \/ UserHandler(p)

UserInit == WorldOf(InitBalance, ChargeConfigs, UserConfigs) /\ limit = MaxRequests

UserNext == UserStep("t1")

UserSpec == UserInit /\ [][UserNext]_vars

(***************************************************************************)
(* Time and the specification.                                             *)
(***************************************************************************)
\* five minutes pass; a request lasts seconds (its calls time out after
\* 15 s), so none is in flight across the step
Tick ==
  /\ now + DUPLICATE_WINDOW <= MaxTime
  /\ \A p \in Procs : pc[p] = "done"
  /\ now' = now + DUPLICATE_WINDOW
  /\ response' = NoResponse
  /\ UNCHANGED <<Store, Caches, webhookActivity, merchantPosts, charges,
                 started, limit, admitted, verification, account, users, pc, req, loc>>

\* one step of the handler that task p runs
Step(p) ==
  \/ StartNotification(p) \/ NFindActivity(p) \/ NLogPending(p)
  \/ NLogInvalidIp(p) \/ PFindTransaction(p) \/ PFindBusiness(p)
  \/ CSave(p) \/ CCreate(p) \/ NotifyBusiness(p)
  \/ NLogSuccess(p) \/ NLogError(p)
  \/ StartReceive(p) \/ RFindWebhook(p) \/ RLock(p) \/ RCreate(p)
  \/ RSave(p) \/ RMarkFailed(p)
  \/ StartWithdrawal(p) \/ WFindTransaction(p) \/ WLock(p) \/ WPayout(p)
  \/ WSave(p) \/ WCreate(p) \/ WCreateFailed(p)

\* requests are handled concurrently: the event loop runs any task's next step
Next == (\E p \in Procs : Step(p)) \/ Tick

Spec == Init /\ [][Next]_vars

\* requests arrive one after another: each is handled to its end before the
\* next one comes
SeqNext == Step("t1") \/ Tick

SeqSpec == Init /\ [][SeqNext]_vars

\* one step of a status operation that task p runs
StatusStep(p) ==
  \/ StartStatus(p) \/ QFind(p) \/ QQuery(p) \/ QSave(p)
  \/ StartAdmin(p) \/ AFind(p) \/ ASave(p)

\* payment requests and status operations, one after another
OpsInit == InitialWorld /\ limit = MaxSeqRequests

OpsNext == Step("t1") \/ StatusStep("t1") \/ Tick

OpsSpec == OpsInit /\ [][OpsNext]_vars

\* Transaction.create of processPayment rejects with a storage error: the
\* catch block of handlePaymentNotification answers 500
CCreateFault(p) ==
  /\ pc[p] = "c_create"
  /\ Throw(p, "Storage error", 500)
  /\ UNCHANGED <<Store, Caches, webhookActivity, merchantPosts, Env, started>>

\* Transaction.create of receivePayment rejects with a storage error: the
\* catch block finds no transaction to mark, and 200 was answered already
RCreateFault(p) ==
  /\ pc[p] = "r_create"
  /\ Return(p, "Storage error")
  /\ UNCHANGED <<Store, Caches, webhookActivity, merchantPosts, Env, started>>

\* requests one after another, with storage errors at the record creation
FaultInit == InitialWorld /\ limit = MaxRequests

FaultNext ==
  Step("t1") \/ CCreateFault("t1") \/ RCreateFault("t1") \/ Tick

FaultSpec == FaultInit /\ [][FaultNext]_vars

\* the custom percentage policies of a merchant: percentages of 0, 0.5 and
\* 2.5 percent in basis points, caps of 0, 20.00 and 500.00 in kobo
FeePercentages == {0, 50, 250}
FeeCaps == {0, 2000, 50000}

FeeConfigs ==
  {[payment |-> [percentage |-> bp, cap |-> c, useDefault |-> FALSE,
                 fixedPrice |-> 0, type |-> "percentage"],
    withdrawal |-> DefaultTiers] : bp \in FeePercentages, c \in FeeCaps}

\* gross amounts of 3.33, 100.00 and 10000.00 in kobo: below and above the
\* amount at which the cap takes over
FeeAmounts == {333, 10000, 1000000}

\* a successful payment of each amount to the merchant's virtual account,
\* delivered to either handler
FeeRequests ==
  {[kind |-> k, ip |-> PAYVESSEL_IP,
    body |-> SignedBody([orderNo |-> <<"ORD", 7>>, orderStatus |-> 1,
                         orderAmount |-> a, virtualAccountNo |-> "va1"]),
    webhookId |-> IF k = "receive" THEN HeaderWebhookId ELSE NoWebhookId,
    orderId |-> NoOrder, amount |-> 0, txnId |-> 0, newStatus |-> "none"]
     : k \in {"notify", "receive"}, a \in FeeAmounts}

StartFeeCredit(p) ==
  /\ CanStart(p)
  /\ started' = started + 1
  /\ \E r \in FeeRequests :
       IF r.kind = "notify"
         THEN Begin(p, r, "n_findActivity", NoLoc)
         ELSE Begin(p, r, "r_findWebhook", [NoLoc EXCEPT !.status = 200])
  /\ UNCHANGED <<Store, Caches, webhookActivity, merchantPosts, Env>>

\* the charge computation applied to every policy and amount, in both
\* handlers
FeeInit == WorldWith(FeeConfigs) /\ limit = MaxRequests

FeeNext ==
  \/ StartFeeCredit("t1")
  \/ NFindActivity("t1") \/ NLogPending("t1") \/ PFindTransaction("t1")
  \/ PFindBusiness("t1") \/ CSave("t1") \/ CCreate("t1")
  \/ NotifyBusiness("t1") \/ NLogSuccess("t1") \/ NLogError("t1")
  \/ RFindWebhook("t1") \/ RLock("t1") \/ RCreate("t1") \/ RSave("t1")

FeeSpec == FeeInit /\ [][FeeNext]_vars

\* the payment-fee configurations a merchant may have stored: none, the
\* schema defaults, a custom percentage of 2.5% capped at 20.00, and a custom
\* fixed fee of 50.00
PolicyConfigs ==
  {[payment |-> c, withdrawal |-> DefaultTiers] :
     c \in {NoCharges, DefaultPaymentCharges,
            [percentage |-> 250, cap |-> 2000, useDefault |-> FALSE,
             fixedPrice |-> 0, type |-> "percentage"],
            [percentage |-> 150, cap |-> 50000, useDefault |-> FALSE,
             fixedPrice |-> 5000, type |-> "fixed"]}}

\* both credit handlers under each of these configurations
PolicyInit == WorldWith(PolicyConfigs) /\ limit = MaxRequests

PolicySpec == PolicyInit /\ [][FeeNext]_vars

\* a merchant with 60000.00, and the withdrawal tiers it may have stored:
\* the schema defaults, custom tiers in use, custom tiers with useDefault set
TierBalance == 6000000

CustomTiers ==
  [tier1 |-> [min |-> 0, max |-> 100000, fee |-> 1000],
   tier2 |-> [min |-> 100001, max |-> 1000000, fee |-> 2500],
   tier3 |-> [min |-> 1000001, fee |-> 5000],
   useDefault |-> FALSE]

TierConfigs ==
  {[payment |-> DefaultPaymentCharges, withdrawal |-> w] :
     w \in {DefaultTiers, CustomTiers,
            [CustomTiers EXCEPT !.useDefault = TRUE]}}

\* amounts of 100.10, 3000.00, and those at the edges of the default tiers:
\* 5000.00, 5000.01, 50000.00, 50000.01
TierAmounts == {10010, 300000, 500000, 500001, 5000000, 5000001}

TierRequests == {Withdrawal(o, a) : o \in OrderIds, a \in TierAmounts}

StartTierWithdrawal(p) == StartWithdrawalOf(p, TierRequests)

\* withdrawals of every tier, one after another
TierInit == World(TierBalance, TierConfigs) /\ limit = MaxRequests

TierNext ==
  \/ StartTierWithdrawal("t1") \/ WFindTransaction("t1") \/ WLock("t1")
  \/ WPayout("t1") \/ WSave("t1") \/ WCreate("t1") \/ WCreateFailed("t1")

TierSpec == TierInit /\ [][TierNext]_vars

\* a notification arrives
TakeNotification ==
  /\ verification.stage = "idle"
  /\ \E n \in Notifications :
       verification' = [stage |-> "taken", notification |-> n,
                        result |-> FALSE]
  /\ UNCHANGED <<Store, Caches, webhookActivity, merchantPosts, now, charges,
                 started, limit, admitted, account, users, pc, req, loc, response>>

\* verifySignature(notification) returns
VerifyNotification ==
  /\ verification.stage = "taken"
  /\ verification' =
       [verification EXCEPT
          !.stage = "done",
          !.result = verifySignatureOf(verification.notification)]
  /\ UNCHANGED <<Store, Caches, webhookActivity, merchantPosts, now, charges,
                 started, limit, admitted, account, users, pc, req, loc, response>>

\* verifySignature applied to every notification
SigInit == InitialWorld /\ limit = MaxRequests

SigNext == TakeNotification \/ VerifyNotification

SigSpec == SigInit /\ [][SigNext]_vars

\* one client sends withdrawal requests again and again, each after the
\* answer to the one before
RepeatInit == InitialWorld /\ limit = MaxRepeats

RepeatNext ==
  \/ StartWithdrawal("t1") \/ WFindTransaction("t1") \/ WLock("t1")
  \/ WPayout("t1") \/ WSave("t1") \/ WCreate("t1") \/ WCreateFailed("t1")
  \/ Tick

RepeatSpec == RepeatInit /\ [][RepeatNext]_vars

\* a minute passes with no request in flight
Minute ==
  /\ now + 1 <= MaxLimiterTime
  /\ \A p \in Procs : pc[p] = "done"
  /\ now' = now + 1
  /\ response' = NoResponse
  /\ UNCHANGED <<Store, Caches, webhookActivity, merchantPosts, charges,
                 started, limit, admitted, verification, account, users, pc,
                 req, loc>>

\* one client sends one withdrawal request, of the whole balance, again and
\* again over more than one window of the rate limiter
LimiterRequests == {Withdrawal(<<"WD", 1>>, InitBalance)}

StartLimited(p) == StartWithdrawalOf(p, LimiterRequests)

LimiterInit == InitialWorld /\ limit = MaxLimited

LimiterNext ==
  \/ StartLimited("t1") \/ WFindTransaction("t1") \/ WLock("t1")
  \/ WPayout("t1") \/ WSave("t1") \/ WCreate("t1") \/ WCreateFailed("t1")
  \/ Minute

LimiterSpec == LimiterInit /\ [][LimiterNext]_vars

(***************************************************************************)
(* What the properties speak about.                                        *)
(***************************************************************************)
CreditKinds == {"notify", "receive"}

\* the net amount the handler of credit request r adds to the balance
NetOf(r) ==
  IF r.kind = "notify"
    THEN calculateCharges(r.body.orderAmount, charges.payment).netAmount
    ELSE receiveCharges(r.body.orderAmount, charges.payment).netAmount

\* r is a delivery the provider means as a credit: from its address, signed,
\* successful, of a positive amount that covers the charge, to a virtual
\* account of an existing merchant
ValidCredit(r) ==
  /\ r.kind \in CreditKinds
  /\ r.kind = "notify" => r.ip = PAYVESSEL_IP
  /\ r.body.sign = Sign(r.body.orderNo, r.body.orderStatus, r.body.orderAmount,
                        r.body.virtualAccountNo)
  /\ r.body.orderStatus = 1
  /\ r.body.orderAmount > 0
  /\ r.body.virtualAccountNo \in DOMAIN AccountNumbers
  /\ AccountNumbers[r.body.virtualAccountNo] \in Businesses
  /\ NetOf(r) >= 0

\* task p takes a step / ends its handler in this step
Moves(p) == pc'[p] # pc[p] \/ response'.task = p
Ends(p) == pc[p] # "done" /\ pc'[p] = "done"

Quiescent == \A p \in Procs : pc[p] = "done"

\* the records of order orderNo in collection T
RecordsOf(T, orderNo) == {i \in 1..Len(T) : T[i].orderNo = orderNo}

(***************************************************************************)
(* C1: deliveries that come one after another.                             *)
(***************************************************************************)
\* C1: when the identical credit webhook is delivered one or more times, one
\* after another, through either path, the handler of every delivery ends
\* with exactly one record of the order, completed and raising the balance by
\* the net amount, and a delivery that finds the order recorded changes
\* neither the balance nor the records.
C1_ReplayExactlyOnce ==
  [][\A p \in Procs :
       /\ (Ends(p) /\ ValidCredit(req[p])) =>
            \E i \in RecordsOf(transactions', req[p].body.orderNo) :
              /\ RecordsOf(transactions', req[p].body.orderNo) = {i}
              /\ transactions'[i].status = "completed"
              /\ transactions'[i].newBalance - transactions'[i].previousBalance
                   = transactions'[i].netAmount
       /\ ( /\ Moves(p)
            /\ req[p].kind \in CreditKinds
            /\ loc[p].txn = 0
            /\ RecordsOf(transactions, req[p].body.orderNo) # {} ) =>
            /\ balance' = balance
            /\ transactions' = transactions]_vars

(***************************************************************************)
(* C2 .. C5: concurrent requests.                                          *)
(***************************************************************************)
\* the 'pending' activities of order orderNo: one per delivery to
\* handlePaymentNotification
NotifyDeliveries(orderNo) ==
  {i \in 1..Len(webhookActivity) :
     /\ webhookActivity[i].event = "payment.notification"
     /\ webhookActivity[i].orderNo = orderNo
     /\ webhookActivity[i].status = "pending"}

FromProviderOnly ==
  \A i \in 1..Len(webhookActivity) :
    webhookActivity[i].error # "Invalid IP address"

\* C2: when two deliveries of the same credit webhook were handled
\* concurrently and nothing else was, the balance ends up raised once by the
\* net amount and the order has exactly one record.
C2_ConcurrentDuplicateOnce ==
  ( /\ Quiescent
    /\ started = 2
    /\ Cardinality(NotifyDeliveries(FirstPayload.orderNo)) = 2
    /\ FromProviderOnly ) =>
    /\ balance = InitBalance
                   + calculateCharges(FirstPayload.orderAmount,
                                      charges.payment).netAmount
    /\ Cardinality(RecordsOf(transactions, FirstPayload.orderNo)) = 1

\* a withdrawal record the provider accepted
Succeeded(i) ==
  /\ transactions[i].type = "withdrawal"
  /\ transactions[i].status \in {"completed", "pending"}

\* C3: of two concurrent withdrawals with distinct order ids, each of the
\* whole balance, never both succeed (both paid out by the provider and both
\* recorded as accepted).
C3_NotBothWithdrawalsSucceed ==
  started = 2 =>
    ~ \E i, j \in TxnIds :
        /\ transactions[i].orderId # transactions[j].orderId
        /\ Succeeded(i) /\ Succeeded(j)
        /\ transactions[i].amount = InitBalance
        /\ transactions[j].amount = InitBalance
        /\ Len(payouts) = 2

RECURSIVE SumCredits(_)
\* the net amounts of the completed credit records among the first n
SumCredits(n) ==
  IF n = 0 THEN 0
  ELSE SumCredits(n - 1)
         + (IF transactions[n].type = "payment"
               /\ transactions[n].status = "completed"
              THEN transactions[n].netAmount ELSE 0)

RECURSIVE SumPayouts(_)
\* the gross amounts of the first n payouts the provider accepted
SumPayouts(n) ==
  IF n = 0 THEN 0 ELSE SumPayouts(n - 1) + payouts[n].gross

\* no delivery of the negative-amount order reached handlePaymentNotification
NoNegativeOrder ==
  \A i \in 1..Len(webhookActivity) :
    webhookActivity[i].orderNo # Payload(4).orderNo

\* C4: once all requests have finished, the balance is the initial balance
\* plus the net amounts of the completed credit records minus the amounts of
\* the withdrawals the provider accepted (here for orders of positive amount).
C4_Conservation ==
  (Quiescent /\ NoNegativeOrder) =>
    balance = InitBalance + SumCredits(Len(transactions))
                - SumPayouts(Len(payouts))

\* the steps of a withdrawal after its sufficiency check
PastSufficiencyCheck == {"w_payout", "w_save", "w_create"}

\* C5: the stored balance is never negative, and a withdrawal that is past its
\* check, so about to write or having written, read a balance that covers
\* its amount.
C5_BalanceNeverNegative ==
  /\ balance >= 0
  /\ \A p \in Procs :
       pc[p] \in PastSufficiencyCheck => loc[p].prev >= req[p].amount

\* a withdrawal of the whole balance was written and the balance is zero
C5_Witness ==
  \E p \in Procs :
    /\ pc[p] = "w_create"
    /\ loc[p].saved
    /\ req[p].amount = InitBalance
    /\ balance = 0

(***************************************************************************)
(* C6 .. C10: records, versions, failures and rejections.                  *)
(***************************************************************************)
\* C6 as stated: every record changes the balance it shows by +netAmount
\* when it is a credit and by -amount when it is a withdrawal.
C6_RecordDelta ==
  \A i \in TxnIds :
    transactions[i].newBalance - transactions[i].previousBalance
      = IF transactions[i].type = "payment" THEN transactions[i].netAmount
        ELSE - transactions[i].amount

\* C6: every credit record shows newBalance - previousBalance = netAmount =
\* amount - charge; every withdrawal record of an accepted payout shows
\* newBalance - previousBalance = -amount; the 'failed' record of a
\* withdrawal that moved no money shows newBalance = previousBalance.
C6_RecordDeltaByStatus ==
  \A i \in TxnIds :
    LET t == transactions[i]
    IN /\ t.type = "payment" =>
            /\ t.newBalance - t.previousBalance = t.netAmount
            /\ t.netAmount = t.amount - t.charge
       /\ (t.type = "withdrawal" /\ t.status # "failed") =>
            t.newBalance - t.previousBalance = - t.amount
       /\ (t.type = "withdrawal" /\ t.status = "failed") =>
            t.newBalance = t.previousBalance

\* a credit record and, chained to it, the record of an accepted withdrawal
C6_Witness ==
  \E i, j \in TxnIds :
    /\ i < j
    /\ transactions[i].type = "payment"
    /\ transactions[i].status = "completed"
    /\ transactions[j].type = "withdrawal"
    /\ transactions[j].status # "failed"
    /\ transactions[j].previousBalance = transactions[i].newBalance

\* C7: a balance write is committed only by a task for which the account's
\* version is still the one of its read.
C7_WriteOnlyIfVersionUnchanged ==
  [][balance' # balance => \E p \in Procs : Moves(p) /\ loc[p].v = version]_vars

\* an activity that flags a balance change left without its record
OrphanFlagged(a) == a.status = "orphaned"

\* C8: a handler that committed its balance write ends with its transaction
\* record written, or with a 'failed' record or an orphan-flagged log entry
\* written in its place (here for orders of positive amount).
C8_WritesTogether ==
  [][\A p \in Procs :
       (Ends(p) /\ loc[p].saved /\ NoNegativeOrder) =>
         \/ loc[p].txn # 0
         \/ Len(transactions') > Len(transactions)
         \/ \E i \in 1..Len(webhookActivity') :
              OrphanFlagged(webhookActivity'[i])]_vars

\* the outcomes of a credit webhook rejected at the address or signature
\* check, at the idempotency check, or at account and merchant resolution
Rejections ==
  {"Invalid IP address", "Invalid signature", "Payment already processed",
   "Account not found", "Business not found"}

\* C9: from the moment a check rejects a credit webhook, its handler changes
\* neither the balance nor the transaction records and posts nothing to the
\* merchant, and it had done none of these before.
C9_RejectedLeavesNoTrace ==
  [][\A p \in Procs :
       ( /\ Moves(p)
         /\ \/ loc[p].err \in Rejections
            \/ response'.task = p /\ response'.err \in Rejections ) =>
         /\ balance' = balance
         /\ transactions' = transactions
         /\ ~loc[p].saved /\ loc[p].txn = 0 /\ ~loc[p].notified
         /\ \A i \in 1..Len(webhookActivity') :
              webhookActivity'[i].event = "payment.received" =>
                i <= Len(webhookActivity)]_vars

\* a replay was just rejected as already processed: the one credit stands
C9_Witness ==
  /\ response.err = "Payment already processed"
  /\ response.status = 200
  /\ Len(transactions) = 1
  /\ balance = InitBalance + transactions[1].netAmount

\* C10: a credit webhook changes the balance only if its status is the
\* success code and its amount is positive, on both paths.
C10_CreditOnlyIfSuccessAndPositive ==
  [][\A p \in Procs :
       (Moves(p) /\ req[p].kind \in CreditKinds /\ balance' # balance) =>
         /\ req[p].body.orderStatus = 1
         /\ req[p].body.orderAmount > 0]_vars

(***************************************************************************)
(* C11: replay of a completed withdrawal.                                  *)
(***************************************************************************)
\* a completed withdrawal record of the business with this order id exists
CompletedKey(orderId) ==
  \E i \in TxnIds : /\ transactions[i].orderId = orderId
                    /\ transactions[i].business = TheBusiness
                    /\ transactions[i].type = "withdrawal"
                    /\ transactions[i].status = "completed"

\* the answer built from the completed record
IdempotentAnswer(p, orderId) ==
  [task |-> p, err |-> "Transaction already processed successfully",
   status |-> 200, key |-> orderId]

\* C11 as stated: every withdrawal request whose key matches a completed
\* record is answered with the success response built from that record, and
\* calls no provider, changes no balance and creates no record, however many
\* times it is repeated.
C11_CompletedReplaySucceeds ==
  [][\A p \in Procs :
       (/\ response'.task = p
        /\ response'.key # NoOrder
        /\ CompletedKey(response'.key))
       => /\ response' = IdempotentAnswer(p, response'.key)
          /\ UNCHANGED <<balance, transactions, payouts>>]_vars

\* C11 amended: a request whose key matches a completed record and that
\* reaches the key lookup is answered 200 from that record; one that the rate
\* limiter (429) or the attempt cache (400) stops before the lookup is
\* rejected; in every case no provider call, no balance change, no record.
C11_CompletedReplayUnlessThrottled ==
  [][\A p \in Procs :
       /\ (/\ pc[p] = "w_findTransaction"
           /\ Moves(p)
           /\ CompletedKey(req[p].orderId))
          => /\ response' = IdempotentAnswer(p, req[p].orderId)
             /\ UNCHANGED <<balance, transactions, payouts>>
       /\ (/\ pc[p] = "done"
           /\ response'.task = p
           /\ response'.key # NoOrder
           /\ CompletedKey(response'.key))
          => /\ \/ response'.status = 429
                   /\ response'.err = "Too many withdrawal attempts"
                \/ response'.status = 400
                   /\ response'.err = "Duplicate transaction detected"
             /\ UNCHANGED <<balance, transactions, payouts>>]_vars

\* a repeat has just been answered from the completed record
C11_Witness ==
  /\ response.status = 200
  /\ response.err = "Transaction already processed successfully"
  /\ CompletedKey(response.key)
  /\ Len(payouts) = 1

(***************************************************************************)
(* C12: retry of a failed withdrawal.                                      *)
(***************************************************************************)
\* the failed withdrawal records of the business with this order id
FailedOfKey(orderId) ==
  {i \in TxnIds : /\ transactions[i].orderId = orderId
                  /\ transactions[i].business = TheBusiness
                  /\ transactions[i].type = "withdrawal"
                  /\ transactions[i].status = "failed"}

\* C12: a withdrawal request whose key matches a failed record is rejected
\* with no provider call and no balance change while less than the cooldown
\* has elapsed since the failure, and after the cooldown it is admitted as a
\* new attempt whose accepted payout ends with a record of its outcome.
C12_FailedKeyRetry ==
  [][\A p \in Procs :
       /\ (/\ pc[p] = "w_findTransaction"
           /\ Moves(p)
           /\ FailedOfKey(req[p].orderId) # {})
          => IF \E i \in FailedOfKey(req[p].orderId) :
                  loc[p].t0 - transactions[i].failedAt < RETRY_TIME_WINDOW
               THEN /\ response'.task = p
                    /\ response'.status = 400
                    /\ UNCHANGED <<balance, transactions, payouts>>
               ELSE pc'[p] = "w_lock"
       /\ (/\ Ends(p)
           /\ req[p].kind = "withdraw"
           /\ loc[p].paid
           /\ FailedOfKey(req[p].orderId) # {})
          => \E i \in 1..Len(transactions') :
               transactions'[i].orderNo = loc[p].payoutNo]_vars

(***************************************************************************)
(* C13: a pending withdrawal of the same key.                              *)
(***************************************************************************)
\* a pending withdrawal record of the business with this order id exists
PendingKey(orderId) ==
  \E i \in TxnIds : /\ transactions[i].orderId = orderId
                    /\ transactions[i].business = TheBusiness
                    /\ transactions[i].type = "withdrawal"
                    /\ transactions[i].status = "pending"

\* a request that arrives at the head or at the key lookup while a pending
\* record of its key exists is rejected there and touches nothing
PendingFailsFast ==
  \A p \in Procs :
    /\ (/\ pc[p] = "w_findTransaction"
        /\ Moves(p)
        /\ PendingKey(req[p].orderId))
       => /\ response'.task = p
          /\ response'.status \in {400, 429}
          /\ UNCHANGED <<balance, transactions, payouts>>
    /\ (/\ pc[p] = "done"
        /\ response'.task = p
        /\ response'.key # NoOrder
        /\ PendingKey(response'.key))
       => /\ response'.status \in {400, 429}
          /\ UNCHANGED <<balance, transactions, payouts>>

\* the tasks whose payout of this order id the provider has accepted and
\* whose attempt has not ended
InFlightDebits(orderId) ==
  {p \in Procs : /\ req[p].kind = "withdraw"
                 /\ req[p].orderId = orderId
                 /\ loc[p].paid}

AtMostOneInFlightDebit ==
  \A o \in OrderIds : Cardinality(InFlightDebits(o)) <= 1

\* C13: a withdrawal request whose key matches a pending record fails fast
\* (no payout sent, balance unchanged, no new record), so that at most one
\* in-flight debit exists per key.
C13_PendingFailsFast ==
  [][PendingFailsFast /\ AtMostOneInFlightDebit']_vars

(***************************************************************************)
(* C14: insufficient balance.                                              *)
(***************************************************************************)
\* C14: a withdrawal request for more than the balance that its lock step
\* reads is rejected there with status 400, before the provider is contacted:
\* no payout request, no transaction record, balance unchanged.
C14_InsufficientRejectedBeforeProvider ==
  [][\A p \in Procs :
       (/\ pc[p] = "w_lock"
        /\ Moves(p)
        /\ req[p].amount > balance)
       => /\ response'.task = p
          /\ response'.status = 400
          /\ response'.err = IF req[p].amount < MIN_WITHDRAWAL
                               THEN "Minimum amount to withdraw is N100"
                               ELSE "Insufficient balance"
          /\ UNCHANGED <<balance, transactions, payouts>>]_vars

\* a request has just been rejected for insufficient balance after an
\* earlier withdrawal took the balance
C14_Witness ==
  /\ response.err = "Insufficient balance"
  /\ response.status = 400
  /\ balance < InitBalance

(***************************************************************************)
(* C15: the transitions of a record's status.                              *)
(***************************************************************************)
\* the transitions the claim allows
AllowedTransition(from, to) ==
  \/ from = "pending" /\ to \in {"completed", "failed", "cancelled"}
  \/ from = "completed" /\ to = "refunded"

\* C15: whichever operation writes it, the status of a record changes only
\* along pending->completed, pending->failed, pending->cancelled and
\* completed->refunded; a failed, cancelled or refunded record never changes
\* status again.
C15_StatusTransitions ==
  [][\A i \in TxnIds :
       transactions'[i].status # transactions[i].status
       => AllowedTransition(transactions[i].status, transactions'[i].status)]_vars

(***************************************************************************)
(* C16: a failed merchant notification.                                    *)
(***************************************************************************)
\* the completed payment record of this order exists
Settled(T, orderNo) ==
  \E i \in 1..Len(T) : /\ T[i].orderNo = orderNo
                       /\ T[i].type = "payment"
                       /\ T[i].status = "completed"

\* C16: a failure of the merchant notification after a credit was settled
\* leaves the balance and the completed record as they are, and the webhook
\* is still acknowledged with 200 as when the notification is delivered.
C16_NotifyFailureIsolated ==
  [][\A p \in Procs :
       /\ (pc[p] = "nb_post" /\ Moves(p))
          => /\ UNCHANGED <<balance, transactions>>
             /\ Settled(transactions', req[p].body.orderNo)
       /\ (Ends(p) /\ loc[p].notified /\ ~loc[p].postOk)
          => /\ response'.status = 200
             /\ response'.err = "none"
             /\ UNCHANGED <<balance, transactions>>
             /\ Settled(transactions', req[p].body.orderNo)]_vars

\* a webhook whose merchant notification failed has just been acknowledged
C16_Witness ==
  /\ response.status = 200
  /\ \E i \in 1..Len(webhookActivity) :
       /\ webhookActivity[i].event = "payment.received"
       /\ webhookActivity[i].status = "failed"
  /\ balance > InitBalance
  /\ Len(webhookActivity) > 0
  /\ webhookActivity[Len(webhookActivity)].event = "payment.notification"
  /\ webhookActivity[Len(webhookActivity)].status = "success"
  /\ Len(merchantPosts) > 0
  /\ ~merchantPosts[Len(merchantPosts)].ok

(***************************************************************************)
(* C17: the status answered to a permanently rejected credit webhook.      *)
(***************************************************************************)
\* the permanent rejections: those of Rejections and the order status that is
\* not the success code
PermanentRejections == Rejections \cup {"Order not successful"}

\* C17: a credit webhook that is permanently rejected (signature or address,
\* already processed, unresolvable account or merchant, non-success order
\* status) is answered with HTTP status 200, like an accepted one.
C17_PermanentRejectionAnswered200 ==
  [][response'.err \in PermanentRejections => response'.status = 200]_vars

(***************************************************************************)
(* C18: a transient failure while a valid credit is processed.             *)
(***************************************************************************)
\* C18: when the processing of a valid credit webhook fails on a storage
\* write error, the provider is answered with a non-200 status, so that it
\* delivers the webhook again and the credit gets applied.
C18_TransientFailureAnswersRetryable ==
  [][\A p \in Procs :
       (/\ Ends(p)
        /\ ValidCredit(req[p])
        /\ response'.err = "Storage error")
       => response'.status # 200]_vars

(***************************************************************************)
(* C19: one POST and one delivery record per notification.                 *)
(***************************************************************************)
\* the POSTs and the delivery records that this step adds
NewPosts == SubSeq(merchantPosts', Len(merchantPosts) + 1, Len(merchantPosts'))
NewActivity ==
  SubSeq(webhookActivity', Len(webhookActivity) + 1, Len(webhookActivity'))

CappedPercentage(amount, bp, cap) ==
  LET uncapped == amount * bp
  IN IF uncapped <= cap * 10000 THEN RoundDiv(uncapped, 10000) ELSE cap

\* C20: for a payment policy with useDefault false, type percentage,
\* percentage p >= 0 and cap C >= 0, the charge computed for a gross amount
\* > 0 is min(amount * p / 100, C) rounded to 2 decimals.
C20_CustomPercentageCharge ==
  \A p \in Procs :
    (/\ pc[p] \in {"c_save", "r_create"}
     /\ ~charges.payment.useDefault
     /\ charges.payment.type = "percentage")
    => loc[p].charge = CappedPercentage(req[p].body.orderAmount,
                                        charges.payment.percentage,
                                        charges.payment.cap)

(***************************************************************************)
(* C21: the fee, the payout and the debit of a withdrawal.                 *)
(***************************************************************************)
\* the tiers in force: the merchant's own unless useDefault is set
TiersInForce ==
  IF charges.withdrawal.useDefault THEN DefaultTiers ELSE charges.withdrawal

\* the fees of the tiers in force whose range contains the amount
FeesOfContainingTier(amount) ==
  LET t == TiersInForce
  IN {f \in {t.tier1.fee, t.tier2.fee, t.tier3.fee} :
        \/ f = t.tier1.fee /\ t.tier1.min <= amount /\ amount <= t.tier1.max
        \/ f = t.tier2.fee /\ t.tier2.min <= amount /\ amount <= t.tier2.max
        \/ f = t.tier3.fee /\ t.tier3.min <= amount}

\* C21: for an admitted withdrawal of amount A >= 100 the fee F is the flat
\* fee of the tier that contains A, the payout requested from the provider is
\* A - F, and on success the balance decreases by exactly A.
C21_FeePayoutDebit ==
  [][\A p \in Procs :
       /\ (pc[p] = "w_payout" /\ Moves(p))
          => /\ req[p].amount >= MIN_WITHDRAWAL
             /\ FeesOfContainingTier(req[p].amount) = {loc[p].fee}
             /\ payouts' # payouts
                  => payouts'[Len(payouts')].amount
                       = req[p].amount - loc[p].fee
       /\ (pc[p] = "w_save" /\ Moves(p) /\ pc'[p] = "w_create")
          => balance' = balance - req[p].amount]_vars

(***************************************************************************)
(* C22: what verifySignature's result depends on.                          *)
(***************************************************************************)
\* the key/value pairs of an object, whatever their insertion order
PairSet(ps) == {ps[i] : i \in 1..Len(ps)}

\* C22: the result of verifySignature depends only on the signature and the
\* set of key/value pairs: a payload that verifies still verifies with its
\* keys inserted in another order, no payload with another set of pairs
\* verifies under the same signature, and a missing or malformed signature
\* gives false, not an exception.
C22_SignatureCoversFields ==
  verification.stage = "done" =>
    LET n == verification.notification
    IN /\ \A m \in Notifications :
            (m.sign = n.sign /\ PairSet(m.params) = PairSet(n.params))
            => verifySignatureOf(m) = verification.result
       /\ verification.result
            => \A m \in Notifications :
                 (m.sign = n.sign /\ PairSet(m.params) # PairSet(n.params))
                 => ~verifySignatureOf(m)
       /\ n.sign \in {Absent, Malformed} => verification.result = FALSE

(***************************************************************************)
(* C23: the version counter.                                               *)
(***************************************************************************)
\* C23: the version counter never decreases, and when a handler has written
\* the balance (a credit or a withdrawal debit) the counter is strictly
\* greater than it was when the handler began.
C23_VersionGrowsWithBalance ==
  [][/\ version' >= version
     /\ \A p \in Procs :
          (Moves(p) /\ balance' # balance) => version' > loc[p].v0]_vars

(***************************************************************************)
(* C24: withdrawals the provider does not accept.                          *)
(***************************************************************************)
\* the handler of p ends after the provider did not accept its payout
EndsUnaccepted(p) ==
  /\ Ends(p)
  /\ \/ pc[p] = "w_payout"
     \/ pc[p] = "w_createFailed" /\ loc[p].provider < 0

\* C24: a withdrawal that reached the provider and was not accepted ends with
\* the balance untouched and with a withdrawal record in status failed for
\* its orderId.
C24_UnacceptedLeavesFailedRecord ==
  [][\A p \in Procs :
       EndsUnaccepted(p) =>
         /\ balance' = balance
         /\ \E i \in 1..Len(transactions') :
              /\ transactions'[i].orderId = req[p].orderId
              /\ transactions'[i].type = "withdrawal"
              /\ transactions'[i].status = "failed"]_vars

(***************************************************************************)
(* C25: the signature in stored delivery records.                          *)
(***************************************************************************)
\* C25: no stored record of a delivery to the merchant holds the signature
\* of that delivery, in its recorded headers or in its recorded body,
\* whether the delivery succeeded or failed.
C25_NoStoredSignature ==
  \A i \in 1..Len(webhookActivity) :
    webhookActivity[i].event = "payment.received" =>
      webhookActivity[i].signed = {}

(***************************************************************************)
(* C26: the lock of an account after five failed logins.                   *)
(***************************************************************************)
\* C26: once five login attempts in a row have been answered as failed, a
\* login that reads the account less than 30 minutes after the fifth of
\* them is rejected with 401, whatever its password.
C26_LockedAfterFiveFailures ==
  [][\A p \in Procs :
       ( /\ pc[p] = "l_find"
         /\ Moves(p)
         /\ account.failed >= MAX_LOGIN_ATTEMPTS
         /\ now < account.lockedAt + LOCK_TIME )
       => /\ pc'[p] = "done"
          /\ response'.status = 401]_vars

(***************************************************************************)
(* C27: the admin-only routes of /api/v1/users.                            *)
(***************************************************************************)
\* the request of p carries a token signed for an enabled, existing user who
\* is not admin and whose password is unchanged
HasNonAdminToken(p) ==
  LET token == req[p].body.token
  IN /\ token.kind = "jwt"
     /\ RoleOf(token.user) # "admin"
     /\ users[token.user].exists
     /\ ~users[token.user].disabled
     /\ ~users[token.user].changed

\* C27: a request to an admin-only route of /api/v1/users reaches its
\* handler only with a valid token of an existing admin; without a token it
\* is answered 401 and with a non-admin user's token 403, and then no user
\* is changed.
C27_AdminOnly ==
  [][\A p \in Procs :
       /\ pc'[p] = "u_handle" =>
            LET token == req'[p].body.token
            IN /\ token.kind = "jwt"
               /\ users[token.user].exists
               /\ RoleOf(token.user) = "admin"
       /\ (Ends(p) /\ req[p].kind \in Routes /\ req[p].body.token = NoToken)
            => response'.status = 401 /\ users' = users
       /\ (Ends(p) /\ req[p].kind \in Routes /\ HasNonAdminToken(p))
            => response'.status = 403 /\ users' = users]_vars

(***************************************************************************)
(* C28: the debit of a withdrawal that failed or was cancelled.            *)
(***************************************************************************)
\* the debit that withdrawal record i of collection T shows
DebitOf(T, i) == T[i].previousBalance - T[i].newBalance

\* C28: the balance carries the debit of a withdrawal only while its record
\* is pending or completed: a record created as failed shows no debit and
\* leaves the balance alone, and when a record goes from pending or
\* completed to failed or cancelled the balance gets its debit back.
C28_NoDebitForDeadWithdrawal ==
  [][/\ ( /\ Len(transactions') = Len(transactions) + 1
          /\ transactions'[Len(transactions')].type = "withdrawal"
          /\ transactions'[Len(transactions')].status \in {"failed", "cancelled"} )
        => /\ DebitOf(transactions', Len(transactions')) = 0
           /\ balance' = balance
     /\ \A i \in 1..Len(transactions) :
          ( /\ transactions[i].type = "withdrawal"
            /\ transactions[i].status \in {"pending", "completed"}
            /\ transactions'[i].status \in {"failed", "cancelled"} )
          => balance' = balance + DebitOf(transactions, i)]_vars

(***************************************************************************)
(* C29: the two credit paths agree on fees.                                *)
(***************************************************************************)
\* C29: whatever the gross amount and the merchant's payment-fee
\* configuration, the charge and the net amount that handlePaymentNotification
\* got from calculateCharges are those receivePayment computes inline, and
\* the other way round.
C29_CreditPathsAgree ==
  \A p \in Procs :
    /\ pc[p] = "c_save" =>
         LET c == receiveCharges(req[p].body.orderAmount, charges.payment)
         IN loc[p].charge = c.chargeAmount /\ loc[p].net = c.netAmount
    /\ pc[p] = "r_create" =>
         LET c == calculateCharges(req[p].body.orderAmount, charges.payment)
         IN loc[p].charge = c.chargeAmount /\ loc[p].net = c.netAmount

(***************************************************************************)
(* C30: the rate limiter of initiatePayment.                               *)
(***************************************************************************)
\* the requests the limiter let pass in the window that ends at resetTime
AdmittedInWindow(resetTime) ==
  {i \in 1..Len(admitted) :
     /\ resetTime - RATE_LIMIT_WINDOW <= admitted[i]
     /\ admitted[i] <= resetTime}

\* C30: at most 5 requests pass the limiter in one of its windows; a further
\* request in the window is answered 429 and touches neither the store nor
\* the provider; the first request after the window has elapsed passes and
\* the count restarts at 1.
C30_RateLimit ==
  [][/\ rateLimitCache'.resetTime >= 0 =>
          Cardinality({i \in 1..Len(admitted') :
                         /\ rateLimitCache'.resetTime - RATE_LIMIT_WINDOW
                              <= admitted'[i]
                         /\ admitted'[i] <= rateLimitCache'.resetTime})
            <= MAX_ATTEMPTS
     /\ \A p \in Procs :
          (pc[p] = "done" /\ started' = started + 1) =>
            /\ ( /\ rateLimitCache.resetTime >= 0
                 /\ now <= rateLimitCache.resetTime
                 /\ Cardinality(AdmittedInWindow(rateLimitCache.resetTime))
                      >= MAX_ATTEMPTS )
               => /\ response'.status = 429
                  /\ pc' = pc
                  /\ UNCHANGED <<Store, Caches, admitted>>
            /\ ( /\ rateLimitCache.resetTime >= 0
                 /\ now > rateLimitCache.resetTime )
               => /\ response'.status # 429
                  /\ rateLimitCache'.count = 1
                  /\ admitted' = Append(admitted, now)]_vars

\* five requests passed in the first window, a sixth was refused, and the
\* seventh, after the window, passed with the count back at 1
C30_Witness ==
  /\ started = 7
  /\ Len(admitted) = 6
  /\ rateLimitCache.count = 1
  /\ Cardinality({i \in 1..Len(admitted) : admitted[i] <= RATE_LIMIT_WINDOW}) = 5

=============================================================================
